---- MODULE Spec2Model ----
(***************************************************************************)
(* Model of the five scripts of the repository:                            *)
(*   get_feature_30.py, query_feature.py, get-feature-242.py  (sqlite3)    *)
(*   get-feature-74.py                                        (ORM session)*)
(*   fix-imports.py                                           (text patch) *)
(* Python strings are sequences of one-character strings, so that          *)
(* str(), json.dumps(), print() and the `in` substring test are computed   *)
(* character by character.                                                 *)
(***************************************************************************)
EXTENDS Integers, Sequences, FiniteSets, TLC

VARIABLES
    script,     \* the lookup script being run
    store,      \* the database file the script reads
    store0,     \* the store as it was when the current run started
    pc,         \* position of the run in the script
    conn,       \* the store handle: "none", "open", "closed"
    cursor,     \* result set left on the cursor by execute
    row,        \* what fetchone()/first() returned (None or a tuple)
    stdout,     \* characters printed by the current run
    exc,        \* the exception that is propagating / ended the run
    exit,       \* exit status of the run, Running while it runs
    run,        \* number of the current run of the script
    prev,       \* what the previous run left: output, outcome, exit, store
    file,       \* fix-imports: frontend/src/pages/ClientDetails.tsx, [exists, text]
    lines0,     \* fix-imports: what readlines() returned
    lines,      \* fix-imports: the list being patched
    idx,        \* fix-imports: loop index i
    fpc,        \* fix-imports: position in the script
    fout        \* fix-imports: characters printed

lookupVars == <<script, store, store0, pc, conn, cursor, row, stdout, exc, exit, run, prev>>
fixVars == <<file, lines0, lines, idx, fpc, fout>>
vars == <<script, store, store0, pc, conn, cursor, row, stdout, exc, exit, run, prev,
          file, lines0, lines, idx, fpc, fout>>

----------------------------------------------------------------------------
(* Bounds of the model *)

MaxRuns == 2
MaxInt == 1
MaxLines == 3

----------------------------------------------------------------------------
(* Python strings *)

NL == "\n"
DQ == "\""
BS == "\\"

RECURSIVE Concat(_)
Concat(ss) == IF ss = <<>> THEN <<>> ELSE Head(ss) \o Concat(Tail(ss))

(* needle in hay *)
Contains(hay, needle) ==
    \E k \in 0..(Len(hay) - Len(needle)) :
        \A j \in 1..Len(needle) : hay[k + j] = needle[j]

Digit(d) == <<"0","1","2","3","4","5","6","7","8","9">>[d + 1]

RECURSIVE Decimal(_)
Decimal(n) == IF n < 10 THEN <<Digit(n)>> ELSE Decimal(n \div 10) \o <<Digit(n % 10)>>

----------------------------------------------------------------------------
(* SQLite values as Python receives them: int, str, None *)

IntV(n) == [t |-> "int", n |-> n, s |-> <<>>]
TextV(s) == [t |-> "text", n |-> 0, s |-> s]
NullV == [t |-> "null", n |-> 0, s |-> <<>>]

(* str(v), as applied by an f-string replacement field *)
Str(v) ==
    CASE v.t = "int" -> Decimal(v.n)
      [] v.t = "text" -> v.s
      [] v.t = "null" -> <<"N","o","n","e">>

JsonEscapeChar(c) ==
    CASE c = DQ -> <<BS, DQ>>
      [] c = BS -> <<BS, BS>>
      [] c = NL -> <<BS, "n">>
      [] OTHER -> <<c>>

RECURSIVE JsonEscape(_)
JsonEscape(s) == IF s = <<>> THEN <<>> ELSE JsonEscapeChar(Head(s)) \o JsonEscape(Tail(s))

(* json.dumps of a scalar *)
JsonScalar(v) ==
    CASE v.t = "int" -> Decimal(v.n)
      [] v.t = "text" -> <<DQ>> \o JsonEscape(v.s) \o <<DQ>>
      [] v.t = "null" -> <<"n","u","l","l">>

(* the text of a dict key / column name *)
KeyText(c) ==
    CASE c = "id" -> <<"i","d">>
      [] c = "priority" -> <<"p","r","i","o","r","i","t","y">>
      [] c = "category" -> <<"c","a","t","e","g","o","r","y">>
      [] c = "name" -> <<"n","a","m","e">>
      [] c = "description" -> <<"d","e","s","c","r","i","p","t","i","o","n">>
      [] c = "steps" -> <<"s","t","e","p","s">>
      [] c = "passes" -> <<"p","a","s","s","e","s">>
      [] c = "in_progress" -> <<"i","n","_","p","r","o","g","r","e","s","s">>

(* one `  "key": value` member line of json.dumps(d, indent=2) *)
JsonMember(key, v) == <<" ", " ", DQ>> \o KeyText(key) \o <<DQ, ":", " ">> \o JsonScalar(v)

RECURSIVE JsonMembers(_)
JsonMembers(items) ==
    IF Len(items) = 1 THEN JsonMember(items[1][1], items[1][2])
    ELSE JsonMember(items[1][1], items[1][2]) \o <<",", NL>> \o JsonMembers(Tail(items))

(* json.dumps(d, indent=2) of a non-empty dict given as <<key, value>> items in insertion order *)
JsonDumps(items) == <<"{", NL>> \o JsonMembers(items) \o <<NL, "}">>

(* print(s): the text followed by a newline is appended to standard output *)
Emit(out, s) == out \o s \o <<NL>>

(* a list.insert that is passed i where i + 1 was meant *)
ListInsertBefore(l, i, x) == SubSeq(l, 1, i - 1) \o <<x>> \o SubSeq(l, i, Len(l))

(* list.insert(i, x), i counted from 0 *)
ListInsert(l, i, x) == SubSeq(l, 1, i) \o <<x>> \o SubSeq(l, i + 1, Len(l))

(* f.readlines(): the text cut after every newline, the newlines kept *)
RECURSIVE ReadLines(_)
ReadLines(t) ==
    IF t = <<>> THEN <<>>
    ELSE LET ends == {k \in 1..Len(t) : t[k] = NL}
             k == IF ends = {} THEN Len(t) ELSE CHOOSE e \in ends : \A o \in ends : e <= o
         IN <<SubSeq(t, 1, k)>> \o ReadLines(SubSeq(t, k + 1, Len(t)))

(* f.writelines(lines): the lines one after the other, nothing added *)
WriteLines(ls) == Concat(ls)

NoFile == [exists |-> FALSE, text |-> <<>>]

(* Python's None, and truthiness of None / a result tuple *)
None == <<>>
Truthy(x) == Len(x) > 0

----------------------------------------------------------------------------
(* The store: the features database file *)

Columns == {"id", "priority", "category", "name", "description", "steps", "passes", "in_progress"}

ColIdx(c) ==
    CASE c = "id" -> 0
      [] c = "priority" -> 1
      [] c = "category" -> 2
      [] c = "name" -> 3
      [] c = "description" -> 4
      [] c = "steps" -> 5
      [] c = "passes" -> 6
      [] c = "in_progress" -> 7

Ids == {30, 74, 242}

(* values a column may hold *)
Pool == [i \in 1..(MaxInt + 1) |-> IntV(i - 1)]
        \o <<TextV(<<"a">>), TextV(<<"q", DQ, NL, BS>>), NullV>>

(* the k-th row with the given id over the given columns: neighbouring
   columns hold different values, every column takes every value of Pool *)
RowFor(id, k, cols) ==
    [c \in cols |-> IF c = "id" THEN IntV(id) ELSE Pool[((k + ColIdx(c)) % Len(Pool)) + 1]]

(* schemas the features table has had *)
Schemas == {Columns, Columns \ {"priority"}, Columns \ {"in_progress"}}

NoStore(kind) == [file |-> kind, table |-> FALSE, cols |-> {}, rows |-> {}]

(* file: "unopenable" (directory missing, permission denied), "absent",
   "garbage" (not a database), "db" *)
Stores ==
    {NoStore("unopenable"), NoStore("absent"), NoStore("garbage"), NoStore("db")}
    \cup { [file |-> "db", table |-> TRUE, cols |-> cs, rows |-> {RowFor(i, k, cs) : i \in present}] :
             cs \in Schemas, k \in 1..Len(Pool), present \in SUBSET Ids }

----------------------------------------------------------------------------
(* The lookup scripts *)

Direct == {"get_feature_30", "query_feature", "get-feature-242"}
Orm == {"get-feature-74"}
Scripts == Direct \cup Orm

Running == -1
NoExc == [type |-> "none", msg |-> "none", at |-> "none"]
NoPrev == [out |-> <<>>, outcome |-> "none", exit |-> Running, store |-> NoStore("absent")]

(* the identifier in the WHERE clause / filter *)
ReqId(s) ==
    CASE s = "get_feature_30" -> 30
      [] s = "query_feature" -> 242
      [] s = "get-feature-242" -> 242
      [] s = "get-feature-74" -> 74

(* the column list of the SELECT; for the ORM query, the mapped columns of Feature *)
FeatureColumns == <<"id", "category", "name", "description", "steps", "priority", "passes", "in_progress">>

Select(s) ==
    CASE s = "get_feature_30" -> <<"id", "priority", "category", "name", "description", "steps">>
      [] s = "query_feature" -> <<"id", "category", "name", "description", "steps">>
      [] s = "get-feature-242" -> <<"id", "category", "name", "description", "steps", "passes", "in_progress">>
      [] s = "get-feature-74" -> FeatureColumns

Range(f) == {f[i] : i \in DOMAIN f}

(* sqlite3.connect(path): what it raises, and what it does to the file *)
ConnectError(st) ==
    IF st.file = "unopenable"
    THEN [type |-> "OperationalError", msg |-> "unable to open database file", at |-> "connect"]
    ELSE NoExc

StoreAfterConnect(st) == IF st.file = "absent" THEN NoStore("db") ELSE st

(* cursor.execute('SELECT <cols> FROM features WHERE id = <id>'): what it raises *)
ExecuteError(st, cols) ==
    CASE st.file = "garbage" ->
           [type |-> "DatabaseError", msg |-> "file is not a database", at |-> "execute"]
      [] st.file # "garbage" /\ ~st.table ->
           [type |-> "OperationalError", msg |-> "no such table", at |-> "execute"]
      [] st.file # "garbage" /\ st.table /\ ~(Range(cols) \subseteq st.cols) ->
           [type |-> "OperationalError", msg |-> "no such column", at |-> "execute"]
      [] OTHER -> NoExc

(* the tuple of a row under the column list *)
Project(r, cols) == [i \in 1..Len(cols) |-> r[cols[i]]]

(* the result set of the SELECT: id is the primary key, so at most one row *)
ResultSet(st, cols, id) ==
    LET match == {r \in st.rows : r["id"] = IntV(id)}
    IN IF match = {} THEN <<>> ELSE <<Project(CHOOSE r \in match : TRUE, cols)>>

(* a statement that consumes what it selects *)
StoreAfterExecuteClearing(st) == [st EXCEPT !.rows = {}]

(* a SELECT leaves the store as it is *)
StoreAfterExecute(st) == st

(* cursor.fetchone() / Query.first() *)
FetchOne(cur) == IF cur = <<>> THEN None ELSE Head(cur)

(* the print statements with row[1] and row[2] exchanged *)
PrintsSwapped(s) ==
    CASE s = "get_feature_30" ->
           << << <<"I","D",":"," ">>, 0 >>,
              << <<"P","r","i","o","r","i","t","y",":"," ">>, 2 >>,
              << <<"C","a","t","e","g","o","r","y",":"," ">>, 1 >>,
              << <<"N","a","m","e",":"," ">>, 3 >>,
              << <<"D","e","s","c","r","i","p","t","i","o","n",":"," ">>, 4 >>,
              << <<"S","t","e","p","s",":"," ">>, 5 >> >>
      [] s = "query_feature" ->
           << << <<"i","d",":"," ">>, 0 >>,
              << <<"c","a","t","e","g","o","r","y",":"," ">>, 2 >>,
              << <<"n","a","m","e",":"," ">>, 1 >>,
              << <<"d","e","s","c","r","i","p","t","i","o","n",":"," ">>, 3 >>,
              << <<"s","t","e","p","s",":"," ">>, 4 >> >>

(* get_feature_30.py lines 9-14 and query_feature.py lines 10-14: the
   print statements of the found branch, as <<literal text, index into row>> *)
Prints(s) ==
    CASE s = "get_feature_30" ->
           << << <<"I","D",":"," ">>, 0 >>,
              << <<"P","r","i","o","r","i","t","y",":"," ">>, 1 >>,
              << <<"C","a","t","e","g","o","r","y",":"," ">>, 2 >>,
              << <<"N","a","m","e",":"," ">>, 3 >>,
              << <<"D","e","s","c","r","i","p","t","i","o","n",":"," ">>, 4 >>,
              << <<"S","t","e","p","s",":"," ">>, 5 >> >>
      [] s = "query_feature" ->
           << << <<"i","d",":"," ">>, 0 >>,
              << <<"c","a","t","e","g","o","r","y",":"," ">>, 1 >>,
              << <<"n","a","m","e",":"," ">>, 2 >>,
              << <<"d","e","s","c","r","i","p","t","i","o","n",":"," ">>, 3 >>,
              << <<"s","t","e","p","s",":"," ">>, 4 >> >>

(* print(f"<text>{row[k]}") for each statement in turn; Python indexes from 0 *)
RECURSIVE PrintAll(_, _, _)
PrintAll(out, stmts, r) ==
    IF stmts = <<>> THEN out
    ELSE PrintAll(Emit(out, stmts[1][1] \o Str(r[stmts[1][2] + 1])), Tail(stmts), r)

(* get-feature-242.py lines 10-18: the dict literal, as <<key, index into row>> *)
FeatureDict ==
    << <<"id", 0>>, <<"category", 1>>, <<"name", 2>>, <<"description", 3>>,
       <<"steps", 4>>, <<"passes", 5>>, <<"in_progress", 6>> >>

DictItems(d, r) == [i \in 1..Len(d) |-> <<d[i][1], r[d[i][2] + 1]>>]

(* Feature.to_json(indent=2): the structured rendering of the mapped columns *)
ToJson(r) == JsonDumps([i \in 1..Len(FeatureColumns) |-> <<FeatureColumns[i], r[i]>>])

(* standard output after the found branch *)
PrintRecord(s, out, r) ==
    CASE s \in {"get_feature_30", "query_feature"} -> PrintAll(out, Prints(s), r)
      [] s = "get-feature-242" -> Emit(out, JsonDumps(DictItems(FeatureDict, r)))
      [] s = "get-feature-74" -> Emit(out, ToJson(r))

(* the text printed by the else branch *)
NotFoundMessage(s) ==
    CASE s = "get_feature_30" ->
           <<"F","e","a","t","u","r","e"," ","#","3","0"," ","n","o","t"," ","f","o","u","n","d">>
      [] s = "query_feature" ->
           <<"N","o"," ","f","e","a","t","u","r","e"," ","f","o","u","n","d"," ","w","i","t","h"," ","i","d","=","2","4","2">>
      [] s = "get-feature-242" ->
           <<"F","e","a","t","u","r","e"," ","n","o","t"," ","f","o","u","n","d">>
      [] s = "get-feature-74" ->
           <<"F","e","a","t","u","r","e"," ","#","7","4"," ","n","o","t"," ","f","o","u","n","d">>

(* an else branch that prints nothing *)
PrintNotFoundSilent(s, out) == out

PrintNotFound(s, out) == Emit(out, NotFoundMessage(s))

(* create_database(PROJECT_DIR): fails when the store cannot be opened *)
CreateDatabaseError(st) ==
    IF st.file # "db"
    THEN [type |-> "SourceUnavailable", msg |-> "store cannot be opened", at |-> "create_database"]
    ELSE NoExc

FirstPc(s) == IF s \in Direct THEN "connect" ELSE "create_database"

(* how a run ended *)
Outcome ==
    CASE pc \notin {"done", "idle"} -> "running"
      [] pc \in {"done", "idle"} /\ exc # NoExc -> "error"
      [] pc \in {"done", "idle"} /\ exc = NoExc /\ Truthy(row) -> "found"
      [] OTHER -> "notfound"

Snapshot == [out |-> stdout, outcome |-> Outcome, exit |-> exit, store |-> store]

----------------------------------------------------------------------------
(* Steps of a run *)

Init ==
    /\ script \in Scripts
    /\ store \in Stores
    /\ store0 = store
    /\ pc = FirstPc(script)
    /\ conn = "none"
    /\ cursor = <<>>
    /\ row = None
    /\ stdout = <<>>
    /\ exc = NoExc
    /\ exit = Running
    /\ run = 1
    /\ prev = NoPrev
    /\ file = NoFile
    /\ lines0 = <<>>
    /\ lines = <<>>
    /\ idx = 0
    /\ fpc = "none"
    /\ fout = <<>>

(* an exception that is reported and swallowed: the run ends with status 0 *)
UncaughtSwallowed(e) ==
    /\ exc' = e
    /\ exit' = 0
    /\ pc' = "done"

(* an exception nobody catches: traceback on stderr, exit status 1 *)
Uncaught(e) ==
    /\ exc' = e
    /\ exit' = 1
    /\ pc' = "done"

(* conn = sqlite3.connect(<path>) *)
Connect ==
    /\ script \in Direct
    /\ pc = "connect"
    /\ IF ConnectError(store) # NoExc
       THEN /\ Uncaught(ConnectError(store))
            /\ UNCHANGED <<store, conn>>
       ELSE /\ conn' = "open"
            /\ store' = StoreAfterConnect(store)
            /\ pc' = "cursor"
            /\ UNCHANGED <<exc, exit>>
    /\ UNCHANGED <<script, store0, cursor, row, stdout, run, prev>>
    /\ UNCHANGED fixVars

(* cur = conn.cursor() *)
Cursor ==
    /\ script \in Direct
    /\ pc = "cursor"
    /\ pc' = "execute"
    /\ UNCHANGED <<script, store, store0, conn, cursor, row, stdout, exc, exit, run, prev>>
    /\ UNCHANGED fixVars

(* cur.execute('SELECT ... FROM features WHERE id = ...') *)
Execute ==
    /\ script \in Direct
    /\ pc = "execute"
    /\ IF ExecuteError(store, Select(script)) # NoExc
       THEN /\ Uncaught(ExecuteError(store, Select(script)))
            /\ UNCHANGED <<store, cursor>>
       ELSE /\ cursor' = ResultSet(store, Select(script), ReqId(script))
            /\ store' = StoreAfterExecute(store)
            /\ pc' = "fetchone"
            /\ UNCHANGED <<exc, exit>>
    /\ UNCHANGED <<script, store0, conn, row, stdout, run, prev>>
    /\ UNCHANGED fixVars

(* row = cur.fetchone() *)
Fetchone ==
    /\ script \in Direct
    /\ pc = "fetchone"
    /\ row' = FetchOne(cursor)
    /\ cursor' = IF cursor = <<>> THEN cursor ELSE Tail(cursor)
    /\ pc' = "branch"
    /\ UNCHANGED <<script, store, store0, conn, stdout, exc, exit, run, prev>>
    /\ UNCHANGED fixVars

(* if row: / if feature:  -- the found branch *)
Found ==
    /\ pc = "branch"
    /\ Truthy(row)
    /\ stdout' = PrintRecord(script, stdout, row)
    /\ pc' = IF script \in Direct THEN "close" ELSE "finally"
    /\ UNCHANGED <<script, store, store0, conn, cursor, row, exc, exit, run, prev>>
    /\ UNCHANGED fixVars

(* else: *)
NotFound ==
    /\ pc = "branch"
    /\ ~Truthy(row)
    /\ stdout' = PrintNotFound(script, stdout)
    /\ pc' = IF script \in Direct THEN "close" ELSE "finally"
    /\ UNCHANGED <<script, store, store0, conn, cursor, row, exc, exit, run, prev>>
    /\ UNCHANGED fixVars

(* conn.close() *)
Close ==
    /\ script \in Direct
    /\ pc = "close"
    /\ conn' = "closed"
    /\ pc' = "end"
    /\ UNCHANGED <<script, store, store0, cursor, row, stdout, exc, exit, run, prev>>
    /\ UNCHANGED fixVars

(* engine, session_maker = create_database(PROJECT_DIR) *)
CreateDatabase ==
    /\ script \in Orm
    /\ pc = "create_database"
    /\ IF CreateDatabaseError(store) # NoExc
       THEN Uncaught(CreateDatabaseError(store))
       ELSE /\ pc' = "session_maker"
            /\ UNCHANGED <<exc, exit>>
    /\ UNCHANGED <<script, store, store0, conn, cursor, row, stdout, run, prev>>
    /\ UNCHANGED fixVars

(* session = session_maker() *)
SessionMaker ==
    /\ script \in Orm
    /\ pc = "session_maker"
    /\ conn' = "open"
    /\ pc' = "query"
    /\ UNCHANGED <<script, store, store0, cursor, row, stdout, exc, exit, run, prev>>
    /\ UNCHANGED fixVars

(* feature = session.query(Feature).filter(Feature.id == 74).first(), inside try: *)
QueryFirst ==
    /\ script \in Orm
    /\ pc = "query"
    /\ IF ExecuteError(store, Select(script)) # NoExc
       THEN /\ exc' = ExecuteError(store, Select(script))
            /\ pc' = "finally"
            /\ UNCHANGED <<store, row>>
       ELSE /\ row' = FetchOne(ResultSet(store, Select(script), ReqId(script)))
            /\ store' = StoreAfterExecute(store)
            /\ pc' = "branch"
            /\ UNCHANGED exc
    /\ UNCHANGED <<script, store0, conn, cursor, stdout, exit, run, prev>>
    /\ UNCHANGED fixVars

(* finally: session.close(), after which a pending exception propagates *)
Finally ==
    /\ script \in Orm
    /\ pc = "finally"
    /\ conn' = "closed"
    /\ IF exc # NoExc
       THEN /\ exit' = 1
            /\ pc' = "done"
       ELSE /\ pc' = "end"
            /\ UNCHANGED exit
    /\ UNCHANGED <<script, store, store0, cursor, row, stdout, exc, run, prev>>
    /\ UNCHANGED fixVars

(* the script runs off its last line: exit status 0 *)
End ==
    /\ pc = "end"
    /\ exit' = 0
    /\ pc' = "done"
    /\ UNCHANGED <<script, store, store0, conn, cursor, row, stdout, exc, run, prev>>
    /\ UNCHANGED fixVars

(* between two runs another process writes the requested record: it deletes
   it, or inserts / replaces it *)
WrittenStores(st, id) ==
    IF st.file = "db" /\ st.table
    THEN LET others == {r \in st.rows : r["id"] # IntV(id)}
         IN {[st EXCEPT !.rows = others]}
            \cup {[st EXCEPT !.rows = others \cup {RowFor(id, k, st.cols)}] : k \in 1..Len(Pool)}
    ELSE {}

OtherWriter ==
    /\ pc = "done"
    /\ run < MaxRuns
    /\ \E st \in WrittenStores(store, ReqId(script)) :
          /\ st # store
          /\ store' = st
    /\ prev' = Snapshot
    /\ pc' = "idle"
    /\ UNCHANGED <<script, store0, conn, cursor, row, stdout, exc, exit, run>>
    /\ UNCHANGED fixVars

(* the script is run again *)
Rerun ==
    /\ pc \in {"done", "idle"}
    /\ run < MaxRuns
    /\ prev' = IF pc = "done" THEN Snapshot ELSE prev
    /\ run' = run + 1
    /\ store0' = store
    /\ pc' = FirstPc(script)
    /\ conn' = "none"
    /\ cursor' = <<>>
    /\ row' = None
    /\ stdout' = <<>>
    /\ exc' = NoExc
    /\ exit' = Running
    /\ UNCHANGED <<script, store>>
    /\ UNCHANGED fixVars

Next ==
    \/ Connect
    \/ Cursor
    \/ Execute
    \/ Fetchone
    \/ Found
    \/ NotFound
    \/ Close
    \/ CreateDatabase
    \/ SessionMaker
    \/ QueryFirst
    \/ Finally
    \/ End
    \/ OtherWriter
    \/ Rerun

Spec == Init /\ [][Next]_vars

----------------------------------------------------------------------------
(* Properties of the lookup scripts *)

Finished == pc = "done"

(* the store holds the features table with every column the script selects *)
SchemaOk(st, s) == st.file = "db" /\ st.table /\ Range(Select(s)) \subseteq st.cols

HasRecord(st, id) == \E r \in st.rows : r["id"] = IntV(id)
RecordOf(st, id) == CHOOSE r \in st.rows : r["id"] = IntV(id)

(* exactly one line: a single newline, at the end *)
OneLine(out) ==
    /\ Len(out) > 0
    /\ out[Len(out)] = NL
    /\ \A i \in 1..(Len(out) - 1) : out[i] # NL

(* the label under which a script prints a field on its `label: value` line *)
Title(c) ==
    CASE c = "id" -> <<"I","D">>
      [] c = "priority" -> <<"P","r","i","o","r","i","t","y">>
      [] c = "category" -> <<"C","a","t","e","g","o","r","y">>
      [] c = "name" -> <<"N","a","m","e">>
      [] c = "description" -> <<"D","e","s","c","r","i","p","t","i","o","n">>
      [] c = "steps" -> <<"S","t","e","p","s">>

FieldLabel(s, c) == IF s = "get_feature_30" THEN Title(c) ELSE KeyText(c)

(* the fields of the SELECT, each once and in the SELECT's order, with the stored values *)
ExpectedLines(s, rec) ==
    Concat([i \in 1..Len(Select(s)) |->
              FieldLabel(s, Select(s)[i]) \o <<":", " ">> \o Str(rec[Select(s)[i]]) \o <<NL>>])

ExpectedJson(s, rec) ==
    <<"{", NL>>
    \o Concat([i \in 1..Len(Select(s)) |->
                 <<" ", " ", DQ>> \o KeyText(Select(s)[i]) \o <<DQ, ":", " ">>
                 \o JsonScalar(rec[Select(s)[i]])
                 \o (IF i < Len(Select(s)) THEN <<",", NL>> ELSE <<NL>>)])
    \o <<"}", NL>>

ExpectedOutput(s, rec) ==
    IF s = "get-feature-242" THEN ExpectedJson(s, rec) ELSE ExpectedLines(s, rec)

(* C1: when the store holds a record with the requested identifier (and the
   selected columns), a finished run of a sqlite3 lookup script has printed
   every field of its SELECT exactly once, in the SELECT's order, each with
   the value stored on that record. *)
C1_FoundOutputMatchesStore ==
    (/\ Finished
     /\ script \in Direct
     /\ SchemaOk(store0, script)
     /\ HasRecord(store0, ReqId(script)))
    => stdout = ExpectedOutput(script, RecordOf(store0, ReqId(script)))

C1_Witness ==
    /\ Finished
    /\ script = "get-feature-242"
    /\ SchemaOk(store0, script)
    /\ HasRecord(store0, ReqId(script))
    /\ RecordOf(store0, ReqId(script))["steps"] = TextV(<<"q", DQ, NL, BS>>)
    /\ Len(stdout) > 0

(* C2: when no record has the requested identifier (in a features table
   with the selected columns), a finished run has printed exactly one line
   as its whole output and that line contains the identifier. *)
C2_NotFoundLineNamesId ==
    (/\ Finished
     /\ SchemaOk(store0, script)
     /\ ~HasRecord(store0, ReqId(script)))
    => /\ OneLine(stdout)
       /\ Contains(stdout, Decimal(ReqId(script)))

(* C3: a run of a sqlite3 script that starts with the store file absent or
   unopenable ends in SourceUnavailable, and not in an exception escaping
   from connect, execute or fetchone. *)
C3_AbsentStoreIsSourceUnavailable ==
    (/\ Finished
     /\ script \in Direct
     /\ store0.file \in {"absent", "unopenable"})
    => /\ exc.type = "SourceUnavailable"
       /\ exc.at \notin {"connect", "execute", "fetchone"}

(* C4: when a selected column is not in the schema the run fails, and it
   fails before any access to the store: no connect has happened. *)
C4_SchemaMismatchBeforeAccess ==
    (/\ Finished
     /\ script \in Direct
     /\ store0.file = "db" /\ store0.table
     /\ ~(Range(Select(script)) \subseteq store0.cols))
    => /\ exc # NoExc
       /\ conn = "none"

(* C5: a handle that was acquired has been released when the run ends,
   on every exit path. *)
C5_HandleReleased ==
    (Finished /\ conn # "none") => conn = "closed"

(* C6: a run leaves the store as it found it. *)
C6_StoreUnchanged ==
    Finished => store = store0

(* C7: a run that starts from the store the previous run left (no other
   writer in between) prints the same output and ends in the same outcome
   and exit status as the previous run. *)
C7_Idempotent ==
    (/\ Finished
     /\ run > 1
     /\ store0 = prev.store)
    => /\ stdout = prev.out
       /\ Outcome = prev.outcome
       /\ exit = prev.exit

C7_Witness ==
    /\ Finished
    /\ run > 1
    /\ store0 = prev.store
    /\ prev.outcome = "found"
    /\ stdout # <<>>

(* the conditions of the two fatal errors, as states of the store *)
SourceUnavailable(st) == st.file # "db" \/ ~st.table
SchemaMismatch(st, s) == st.file = "db" /\ st.table /\ ~(Range(Select(s)) \subseteq st.cols)

(* C8: the exit status is 0 exactly when the run ended in found or in a
   printed not-found, and non-zero exactly when the store could not be
   opened or read as the features table (SourceUnavailable) or lacks a
   selected column (SchemaMismatch); a not-found run has printed its
   message and exits 0. *)
C8_ExitStatus ==
    Finished =>
       /\ exit \in {0, 1}
       /\ (exit = 0) <=> (Outcome \in {"found", "notfound"})
       /\ (exit # 0) <=> (SourceUnavailable(store0) \/ SchemaMismatch(store0, script))
       /\ (Outcome = "notfound") => (exit = 0 /\ stdout = NotFoundMessage(script) \o <<NL>>)

C8_Witness ==
    /\ Finished
    /\ script = "get_feature_30"
    /\ Outcome = "notfound"
    /\ exit = 0
    /\ stdout # <<>>

(* the two shapes of output *)
IsRendering(out) == Truthy(row) /\ out = PrintRecord(script, <<>>, row)
IsNotFoundLine(out) == out = NotFoundMessage(script) \o <<NL>>

(* C10: a run whose query completed has printed either the record rendering
   or the not-found message, never both and never neither, and the record
   rendering exactly when fetchone()/first() returned a row. *)
C10_OneShape ==
    (Finished /\ exc = NoExc) =>
       /\ IsRendering(stdout) \/ IsNotFoundLine(stdout)
       /\ ~(IsRendering(stdout) /\ IsNotFoundLine(stdout))
       /\ IsRendering(stdout) <=> (row # None)
       /\ ~Contains(stdout, NotFoundMessage(script)) \/ ~Truthy(row)

C10_Witness ==
    /\ Finished
    /\ exc = NoExc
    /\ script = "query_feature"
    /\ row # None
    /\ IsRendering(stdout)

----------------------------------------------------------------------------
(* fix-imports.py *)

PROGRESS == <<" "," ","P","r","o","g","r","e","s","s",",">>
BOX == <<" "," ","B","o","x",",","\n">>
DATES == <<"f","r","o","m"," ","'","@","m","a","n","t","i","n","e","/","d","a","t","e","s","'",";">>
DROPZONE == <<"i","m","p","o","r","t"," ","{"," ","D","r","o","p","z","o","n","e",","," ","F","i","l","e","W","i","t","h","P","a","t","h"," ","}"," ","f","r","o","m"," ","'","@","m","a","n","t","i","n","e","/","d","r","o","p","z","o","n","e","'",";","\n">>
SUCCESS == <<"I","m","p","o","r","t","s"," ","a","d","d","e","d"," ","s","u","c","c","e","s","s","f","u","l","l","y">>

(* pieces the file under patch is made of: lines with one marker, with both,
   with neither (a near miss), an unterminated line, an already inserted line *)
LinePool ==
    { PROGRESS \o <<NL>>,
      <<"}", " ">> \o DATES \o <<NL>>,
      PROGRESS \o <<" ", "}", " ">> \o DATES \o <<NL>>,
      <<" ","P","r","o","g","r","e","s","s",",", NL>>,
      PROGRESS,
      BOX }

RECURSIVE SeqsUpTo(_, _)
SeqsUpTo(S, n) ==
    IF n = 0 THEN {<<>>}
    ELSE LET shorter == SeqsUpTo(S, n - 1)
         IN shorter \cup {Append(q, x) : q \in shorter, x \in S}

InitFix ==
    /\ file \in {NoFile} \cup {[exists |-> TRUE, text |-> Concat(ls)] : ls \in SeqsUpTo(LinePool, MaxLines)}
    /\ lines0 = <<>>
    /\ lines = <<>>
    /\ idx = 0
    /\ fpc = "read"
    /\ fout = <<>>
    /\ script = "fix-imports"
    /\ store = NoStore("absent")
    /\ store0 = NoStore("absent")
    /\ pc = "none"
    /\ conn = "none"
    /\ cursor = <<>>
    /\ row = None
    /\ stdout = <<>>
    /\ exc = NoExc
    /\ exit = Running
    /\ run = 1
    /\ prev = NoPrev

(* with open(..., 'r') as f: lines = f.readlines() *)
ReadFile ==
    /\ fpc = "read"
    /\ IF ~file.exists
       THEN /\ fpc' = "failed"
            /\ UNCHANGED <<lines0, lines>>
       ELSE /\ lines' = ReadLines(file.text)
            /\ lines0' = ReadLines(file.text)
            /\ fpc' = "loop1"
    /\ idx' = 0
    /\ UNCHANGED <<file, fout>>
    /\ UNCHANGED lookupVars

(* one iteration of: for i, line in enumerate(lines): if marker in line:
   lines.insert(i + 1, text); break *)
LoopStep(here, marker, text, after) ==
    /\ fpc = here
    /\ IF idx >= Len(lines)
       THEN /\ fpc' = after
            /\ idx' = 0
            /\ UNCHANGED lines
       ELSE IF Contains(lines[idx + 1], marker)
            THEN /\ lines' = ListInsert(lines, idx + 1, text)
                 /\ fpc' = after
                 /\ idx' = 0
            ELSE /\ idx' = idx + 1
                 /\ UNCHANGED <<lines, fpc>>
    /\ UNCHANGED <<file, lines0, fout>>
    /\ UNCHANGED lookupVars

ProgressLoop == LoopStep("loop1", PROGRESS, BOX, "loop2")

DatesLoop == LoopStep("loop2", DATES, DROPZONE, "write")

(* with open(..., 'w') as f: f.writelines(lines) *)
WriteFile ==
    /\ fpc = "write"
    /\ file' = [exists |-> TRUE, text |-> WriteLines(lines)]
    /\ fpc' = "print"
    /\ UNCHANGED <<lines0, lines, idx, fout>>
    /\ UNCHANGED lookupVars

(* print("Imports added successfully") *)
PrintSuccess ==
    /\ fpc = "print"
    /\ fout' = Emit(fout, SUCCESS)
    /\ fpc' = "done"
    /\ UNCHANGED <<file, lines0, lines, idx>>
    /\ UNCHANGED lookupVars

NextFix ==
    \/ ReadFile
    \/ ProgressLoop
    \/ DatesLoop
    \/ WriteFile
    \/ PrintSuccess

SpecFix == InitFix /\ [][NextFix]_vars

----------------------------------------------------------------------------
(* Properties of fix-imports.py *)

(* position of the first line containing the marker, 0 when there is none *)
FirstWith(ls, marker) ==
    LET hits == {i \in 1..Len(ls) : Contains(ls[i], marker)}
    IN IF hits = {} THEN 0 ELSE CHOOSE i \in hits : \A j \in hits : i <= j

Count(ls, x) == Cardinality({i \in 1..Len(ls) : ls[i] = x})

(* ls with the elements at the positions in drop removed *)
RECURSIVE Without(_, _)
Without(ls, drop) ==
    IF ls = <<>> THEN <<>>
    ELSE LET n == Len(ls)
             front == Without(SubSeq(ls, 1, n - 1), drop)
         IN IF n \in drop THEN front ELSE Append(front, ls[n])

(* w is ls with at most n elements inserted, nothing removed or reordered *)
InsertedOnly(ls, w, n) ==
    \E drop \in SUBSET (1..Len(w)) :
        /\ Cardinality(drop) <= n
        /\ Without(w, drop) = ls

Written == fpc = "done"

(* C9: the written list is the list read with at most two lines inserted and
   nothing removed or reordered; the Box line stands immediately after the
   first Progress line iff there is one, the Dropzone line immediately after
   the first dates line iff there is one; with neither marker the file is
   rewritten unchanged. *)
C9_InsertedImmediatelyAfter ==
    Written =>
       LET p == FirstWith(lines0, PROGRESS)
           d == FirstWith(lines0, DATES)
           wp == FirstWith(lines, PROGRESS)
           wd == FirstWith(lines, DATES)
       IN /\ file.text = WriteLines(lines)
          /\ InsertedOnly(lines0, lines, 2)
          /\ Count(lines, BOX) = Count(lines0, BOX) + (IF p > 0 THEN 1 ELSE 0)
          /\ Count(lines, DROPZONE) = Count(lines0, DROPZONE) + (IF d > 0 THEN 1 ELSE 0)
          /\ p > 0 => (wp < Len(lines) /\ lines[wp + 1] = BOX)
          /\ d > 0 => (wd < Len(lines) /\ lines[wd + 1] = DROPZONE)
          /\ (p = 0 /\ d = 0) => lines = lines0

(* the lines the script is to write: every line read, followed by the
   Dropzone line when it is the first dates line and then by the Box line
   when it is the first Progress line *)
PatchedLines(ls) ==
    LET p == FirstWith(ls, PROGRESS)
        d == FirstWith(ls, DATES)
    IN Concat([i \in 1..Len(ls) |->
                 <<ls[i]>>
                 \o (IF i = d THEN <<DROPZONE>> ELSE <<>>)
                 \o (IF i = p THEN <<BOX>> ELSE <<>>)])

(* C9, amended: the written list is the list read with at most two lines
   inserted and nothing removed or reordered; the Box line follows the first
   Progress line iff there is one and the Dropzone line follows the first
   dates line iff there is one, each immediately, except that when the first Progress
   line is also the first dates line the Dropzone line stands between that
   line and the Box line. *)
C9_Patched ==
    Written =>
       /\ lines = PatchedLines(lines0)
       /\ file.text = WriteLines(PatchedLines(lines0))
       /\ InsertedOnly(lines0, lines, 2)

C9_Witness ==
    /\ Written
    /\ FirstWith(lines0, PROGRESS) > 0
    /\ FirstWith(lines0, PROGRESS) = FirstWith(lines0, DATES)
    /\ Len(lines) = Len(lines0) + 2

====
